---- MODULE Spec2Model ----
(***************************************************************************)
(* Model of faceless_content_generator.py: the topic -> script -> speech   *)
(* -> captioned frames -> timeline -> video pipeline.                       *)
(*                                                                         *)
(* Text is a sequence of one-character strings.  The literal sentences of  *)
(* the fallback script are kept as single whitespace-free-at-the-ends      *)
(* atoms, so that "trimmed" and "non-empty" mean what they mean in Python. *)
(* Times are integers in milliseconds; a quotient of two times is an exact *)
(* fraction [num, den] in lowest terms (Python's true division, without    *)
(* the binary rounding of a double).                                       *)
(***************************************************************************)
EXTENDS Integers, Sequences, FiniteSets, TLC

\* ------------------------------------------------------------------ bounds
MaxText   == 4      \* longest service response, in characters
MaxWords  == 4      \* longest caption, in words (word-wrap unit)
MaxFrames == 6      \* most frames handed to the timeline (timeline unit)

\* ------------------------------------------------------- program constants
VIDEO_WIDTH      == 1080
PADDING          == 100
BACKGROUND_COLOR == "#1a1a1a"
CROSSFADE_MS     == 500

Runs == {1, 2}

\* ------------------------------------------------------------ text helpers
NL == "\n"
SP == " "
Chars == {"a", SP, NL}

\* str.isspace for one character
IsSpace(c) == c \in {SP, NL}

RECURSIVE LStrip(_)
LStrip(s) == IF s = <<>> THEN s
             ELSE IF IsSpace(Head(s)) THEN LStrip(Tail(s)) ELSE s

RECURSIVE RStrip(_)
RStrip(s) == IF s = <<>> THEN s
             ELSE IF IsSpace(s[Len(s)]) THEN RStrip(SubSeq(s, 1, Len(s) - 1)) ELSE s

\* str.strip()
Strip(s) == RStrip(LStrip(s))

\* str.split('\n'): always at least one piece, possibly empty
RECURSIVE SplitNL(_)
SplitNL(s) ==
    IF \A i \in 1..Len(s) : s[i] /= NL THEN <<s>>
    ELSE LET i == CHOOSE k \in 1..Len(s) :
                     s[k] = NL /\ \A j \in 1..(k - 1) : s[j] /= NL
         IN  <<SubSeq(s, 1, i - 1)>> \o SplitNL(SubSeq(s, i + 1, Len(s)))

\* ' '.join(parts)
RECURSIVE JoinSP(_)
JoinSP(parts) ==
    IF parts = <<>> THEN <<>>
    ELSE IF Len(parts) = 1 THEN parts[1]
    ELSE parts[1] \o <<SP>> \o JoinSP(Tail(parts))

\* [f(x) for x in s]
MapSeq(s, F(_)) == [i \in 1..Len(s) |-> F(s[i])]

\* All sequences over S of length at most n
SeqUpTo(S, n) == UNION {[1..k -> S] : k \in 0..n}

\* ----------------------------------------------------------- ScriptSource
\* The four lines returned by the except branch.
FallbackScript(t) ==
    << <<"Here's an interesting quote about", SP>> \o t \o <<".">>,
       <<"The greatest wisdom comes from experience.">>,
       <<"Philosophers have pondered this for centuries.">>,
       <<"What can we learn from their insights?">> >>

NonEmptyLine(line) == Strip(line) /= <<>>

\* response.text.strip().split('\n'), then strip each line and drop the empty ones
ParseScript(text) ==
    LET script == SplitNL(Strip(text))
    IN  MapSeq(SelectSeq(script, NonEmptyLine), Strip)

\* A response of the text-generation call: it raises, or it returns text.
Raised == [kind |-> "raise", text |-> <<>>]
Returned(text) == [kind |-> "text", text |-> text]

generate_script(t, resp) ==
    IF resp.kind = "raise" THEN FallbackScript(t) ELSE ParseScript(resp.text)

Topics == {<<"a">>, <<"a", SP, "a">>}
Responses == {Raised} \cup {Returned(x) : x \in SeqUpTo(Chars, MaxText)}

\* ---------------------------------------------------- caption word wrap
\* A word is known to the wrap only through its measured width, so a word is
\* its width in pixels, and a line is the sequence of the words joined into it
\* (the empty sequence is the empty string '').
WordWidths == {300, 500, 1000}
SpaceWidth == 10

RECURSIVE SumSeq(_)
SumSeq(s) == IF s = <<>> THEN 0 ELSE Head(s) + SumSeq(Tail(s))

\* draw.textlength(' '.join(line), font=font)
textlength(line) ==
    IF line = <<>> THEN 0 ELSE SumSeq(line) + SpaceWidth * (Len(line) - 1)

WrapLimit == VIDEO_WIDTH - PADDING

\* the loop over words, then the trailing "if current_line"
RECURSIVE WrapLoop(_, _, _)
WrapLoop(words, lines, current_line) ==
    IF words = <<>>
    THEN IF current_line /= <<>> THEN Append(lines, current_line) ELSE lines
    ELSE LET word      == Head(words)
             test_line == Append(current_line, word)
         IN  IF textlength(test_line) < WrapLimit
             THEN WrapLoop(Tail(words), lines, test_line)
             ELSE WrapLoop(Tail(words), Append(lines, current_line), <<word>>)

WrapText(words) == WrapLoop(words, <<>>, <<>>)

\* ------------------------------------------------------------- fractions
RECURSIVE GCD(_, _)
GCD(a, b) == IF b = 0 THEN a ELSE GCD(b, a % b)

Abs(x) == IF x < 0 THEN -x ELSE x

\* num / den in lowest terms, den > 0
Q(num, den) ==
    LET g == GCD(Abs(num), den)
    IN  IF g = 0 THEN [num |-> 0, den |-> 1] ELSE [num |-> num \div g, den |-> den \div g]

QAdd(x, y) == Q(x.num * y.den + y.num * x.den, x.den * y.den)

RECURSIVE QSum(_)
QSum(s) == IF s = <<>> THEN Q(0, 1) ELSE QAdd(Head(s), QSum(Tail(s)))

\* -------------------------------------------------------- TimelineBuilder
Durations == {1000, 42300, 60000}

\* total_duration / len(script_segments), for len >= 1
segment_duration(total_duration, n) == Q(total_duration, n)

HasCrossfadeInAlways(i) == i >= 0

\* "if i > 0" and "if i < len(image_paths) - 1", i counted from 0
HasCrossfadeIn(i) == i > 0
HasCrossfadeOut(i, n) == i < n - 1

\* ImageClip(img_path).set_duration(...) with its fades; a fade changes the
\* clip's mask, not its duration
MakeClip(i, img, n, seg) ==
    [img          |-> img,
     duration     |-> seg,
     crossfadein  |-> HasCrossfadeIn(i),
     crossfadeout |-> HasCrossfadeOut(i, n)]

\* the loop "for i, img_path in enumerate(image_paths)"
BuildClips(paths, seg) ==
    [k \in 1..Len(paths) |-> MakeClip(k - 1, paths[k], Len(paths), seg)]

ClipDuration(c) == c.duration

TrackDurationOverlapped(cs) ==
    QAdd(QSum(MapSeq(cs, ClipDuration)), Q(-(CROSSFADE_MS * (Len(cs) - 1)), 1))

\* concatenate_videoclips(clips, method="compose") with no padding argument:
\* the clips are laid end to end, so the track lasts the sum of their durations
TrackDuration(cs) == QSum(MapSeq(cs, ClipDuration))

concatenate_videoclips(cs) == [clips |-> cs, duration |-> TrackDuration(cs)]

\* create_video from the audio probe to the concatenation, on the images
\* already written: a division by zero when there is no segment
build_timeline(imgs, total_duration) ==
    IF Len(imgs) = 0
    THEN [error |-> "ZeroDivisionError", clips |-> <<>>, duration |-> Q(0, 1)]
    ELSE LET cs == BuildClips(imgs, segment_duration(total_duration, Len(imgs)))
             fc == concatenate_videoclips(cs)
         IN  [error |-> "", clips |-> fc.clips, duration |-> fc.duration]

\* ------------------------------------------------------------ SceneComposer
\* What the image service call can do: return a photo, raise an Exception
\* (network, HTTP status, missing key, decode), or be cut short by something
\* that is no Exception (a KeyboardInterrupt while waiting on the network).
FetchOutcomes == {"ok", "error", "interrupt"}

\* get_unsplash_image: the photo, the solid colour when an Exception is caught;
\* anything else passes through its "except Exception"
get_unsplash_image(fetch) ==
    [raised |-> (fetch = "interrupt"),
     image  |-> IF fetch = "ok" THEN "photo" ELSE BACKGROUND_COLOR]

create_image_with_text_unguarded(text, index, fetch) ==
    LET got == get_unsplash_image(fetch)
    IN  [raised |-> got.raised, text |-> text, index |-> index, bg |-> got.image]

\* create_image_with_text up to the save: the frame drawn for one line (its
\* caption text over its background); the bare "except:" around the fetch
\* turns whatever still escapes into the solid colour
create_image_with_text(text, index, fetch) ==
    LET got == get_unsplash_image(fetch)
    IN  [raised |-> FALSE, text |-> text, index |-> index,
         bg |-> IF got.raised THEN BACKGROUND_COLOR ELSE got.image]

\* ------------------------------------------------------------ file names
scene_path(index) == <<"scene_.png", index>>
AUDIO_PATH  == <<"output_audio.mp3", 0>>
SCRIPT_PATH == <<"script.txt", 0>>
OUTPUT_PATH == <<"output_video.mp4", 0>>
TEMP_AUDIO  == <<"temp-audio.m4a", 0>>

\* ------------------------------------------------------------------ state
VARIABLES
    pc,               \* where each run stands in main / create_video
    topic,            \* main: topic
    response,         \* what the text-generation call did in this run
    script_segments,  \* main: script_segments
    audio_path,       \* whether main's local audio_path is bound
    audio_duration,   \* main: audio_duration (ms), 0 before it is set
    fetched,          \* per line composed: what the fetch did, whether the save worked
    image_paths,      \* create_video: indices of the scene files written
    clips,            \* create_video: clips
    final_clip,       \* create_video: final_clip, <<>> before it is built
    out,              \* what the run printed
    started,          \* the stages the run has entered, in order
    exit_code,        \* the status the process ended with, -1 while it runs
    fs,               \* the working directory: file name -> file
    call,             \* unit harness: the function applied and its arguments
    result            \* unit harness: what it returned

vars == <<pc, topic, response, script_segments, audio_path, audio_duration,
          fetched, image_paths, clips, final_clip, out, started, exit_code,
          fs, call, result>>

pipeline_vars == <<pc, topic, response, script_segments, audio_path,
                   audio_duration, fetched, image_paths, clips, final_clip,
                   out, started, exit_code, fs>>

NoCall   == [fn |-> "none"]
NoResult == [done |-> FALSE, value |-> <<>>]

PipelineInit ==
    /\ pc = [r \in Runs |-> "input"]
    /\ topic = [r \in Runs |-> <<>>]
    /\ response = [r \in Runs |-> Raised]
    /\ script_segments = [r \in Runs |-> <<>>]
    /\ audio_path = [r \in Runs |-> FALSE]
    /\ audio_duration = [r \in Runs |-> 0]
    /\ fetched = [r \in Runs |-> <<>>]
    /\ image_paths = [r \in Runs |-> <<>>]
    /\ clips = [r \in Runs |-> <<>>]
    /\ final_clip = [r \in Runs |-> <<>>]
    /\ out = [r \in Runs |-> <<>>]
    /\ started = [r \in Runs |-> <<>>]
    /\ exit_code = [r \in Runs |-> -1]
    /\ fs = <<>>

Init == PipelineInit /\ call = NoCall /\ result = NoResult

\* ------------------------------------------------------------ file system
Exists(name) == name \in DOMAIN fs

WriteFile(f, name, r, data) ==
    [n \in (DOMAIN f) \cup {name} |->
        IF n = name THEN [name |-> name, by |-> r, data |-> data] ELSE f[n]]

RemoveFiles(f, names) == [n \in (DOMAIN f) \ names |-> f[n]]

\* ------------------------------------------------------------------ main
ERROR_MSG   == "An error occurred"
SUCCESS_MSG == "Video created successfully"

\* what main does once script.txt is written: the narration comes first
AfterSaveScriptVideoFirst == "compose"

AfterSaveScript == "tts"

\* the except clause of main: the message, then on to the finally clause
Raise(r, printed) ==
    /\ pc' = [pc EXCEPT ![r] = "finally"]
    /\ out' = [out EXCEPT ![r] = @ \o printed \o <<ERROR_MSG>>]

Goto(r, label, printed) ==
    /\ pc' = [pc EXCEPT ![r] = label]
    /\ out' = [out EXCEPT ![r] = @ \o printed]

Enter(r, stage, index) ==
    started' = [started EXCEPT ![r] = Append(@, <<stage, index>>)]

\* topic = input(...)
ReadTopic(r, TS) ==
    /\ pc[r] = "input"
    /\ \E t \in TS : topic' = [topic EXCEPT ![r] = t]
    /\ Goto(r, "start", <<>>)
    /\ UNCHANGED <<response, script_segments, audio_path, audio_duration, fetched,
                   image_paths, clips, final_clip, started, exit_code, fs,
                   call, result>>

\* script_segments = generate_script(topic)
GenerateScript(r, RS) ==
    /\ pc[r] = "start"
    /\ \E resp \in RS :
          /\ response' = [response EXCEPT ![r] = resp]
          /\ script_segments' =
                [script_segments EXCEPT ![r] = generate_script(topic[r], resp)]
    /\ Enter(r, "ScriptSource", 0)
    /\ Goto(r, "save_script", <<"Generating script segments...", "Generated">>)
    /\ UNCHANGED <<topic, audio_path, audio_duration, fetched, image_paths, clips,
                   final_clip, exit_code, fs, call, result>>

\* with open("script.txt", "w") ...: f.write(...)
SaveScript(r) ==
    /\ pc[r] = "save_script"
    /\ \E ok \in BOOLEAN :
          IF ok
          THEN /\ fs' = WriteFile(fs, SCRIPT_PATH, r, script_segments[r])
               /\ Goto(r, AfterSaveScript, <<>>)
          ELSE /\ fs' = fs
               /\ Raise(r, <<>>)
    /\ UNCHANGED <<topic, response, script_segments, audio_path, audio_duration,
                   fetched, image_paths, clips, final_clip, started, exit_code,
                   call, result>>

\* ------------------------------------------------------------------ Narrator
\* What gTTS(...).save(out_path) then AudioFileClip(out_path).duration can do:
\* raise before the file exists, raise with the file on disk, or return the
\* probed duration.  An empty text is never synthesized.
TTSOutcomes(full_script, DS) ==
    {[kind |-> "raise", saved |-> b, duration |-> 0] : b \in BOOLEAN}
    \cup (IF full_script = <<>> THEN {}
          ELSE {[kind |-> "ok", saved |-> TRUE, duration |-> d] : d \in DS})

\* create_video's list comprehension is skipped on an empty script
AfterNarrator(segs) == IF Len(segs) = 0 THEN "timeline" ELSE "compose"

\* audio_path = Path(...); audio_duration = text_to_speech(full_script, audio_path)
TextToSpeech(r, DS) ==
    /\ pc[r] = "tts"
    /\ audio_path' = [audio_path EXCEPT ![r] = TRUE]
    /\ Enter(r, "Narrator", 0)
    /\ \E o \in TTSOutcomes(JoinSP(script_segments[r]), DS) :
          /\ fs' = IF o.saved THEN WriteFile(fs, AUDIO_PATH, r, o.duration) ELSE fs
          /\ IF o.kind = "ok"
             THEN /\ audio_duration' = [audio_duration EXCEPT ![r] = o.duration]
                  /\ Goto(r, AfterNarrator(script_segments[r]),
                          <<"Generating audio...", "Creating video...">>)
             ELSE /\ audio_duration' = audio_duration
                  /\ Raise(r, <<"Generating audio...">>)
    /\ UNCHANGED <<topic, response, script_segments, fetched, image_paths, clips,
                   final_clip, exit_code, call, result>>

\* ------------------------------------------------------------- create_video
\* one turn of "[create_image_with_text(seg, i, ...) for i, seg in enumerate(.., 1)]"
ComposeFrame(r) ==
    LET i == Len(image_paths[r]) + 1
        n == Len(script_segments[r])
    IN  /\ pc[r] = "compose"
        /\ i <= n
        /\ Enter(r, "SceneComposer", i)
        /\ \E fetch \in FetchOutcomes, saved \in BOOLEAN :
              LET frame == create_image_with_text(script_segments[r][i], i, fetch)
              IN
              /\ fetched' = [fetched EXCEPT ![r] =
                                Append(@, [fetch |-> fetch, saved |-> saved])]
              /\ IF ~frame.raised /\ saved
                 THEN /\ fs' = WriteFile(fs, scene_path(i), r, frame)
                      /\ image_paths' = [image_paths EXCEPT ![r] = Append(@, i)]
                      /\ Goto(r, IF i = n THEN "timeline" ELSE "compose", <<>>)
                 ELSE /\ fs' = fs
                      /\ image_paths' = image_paths
                      /\ Raise(r, <<>>)
        /\ UNCHANGED <<topic, response, script_segments, audio_path, audio_duration,
                       clips, final_clip, exit_code, call, result>>

ScenePaths(r) == {scene_path(image_paths[r][k]) : k \in 1..Len(image_paths[r])}

\* AudioFileClip(audio_path), the clip loop and concatenate_videoclips
BuildTimeline(r) ==
    /\ pc[r] = "timeline"
    /\ Enter(r, "TimelineBuilder", 0)
    /\ IF /\ Exists(AUDIO_PATH)
          /\ fs[AUDIO_PATH].data > 0
          /\ \A p \in ScenePaths(r) : Exists(p)
          /\ Len(script_segments[r]) > 0
       THEN LET imgs == [k \in 1..Len(image_paths[r]) |->
                            fs[scene_path(image_paths[r][k])]]
                tl   == build_timeline(imgs, fs[AUDIO_PATH].data)
            IN  /\ clips' = [clips EXCEPT ![r] = tl.clips]
                /\ final_clip' = [final_clip EXCEPT ![r] =
                       <<[duration |-> tl.duration, audio |-> fs[AUDIO_PATH]]>>]
                /\ Goto(r, "render", <<>>)
       ELSE /\ UNCHANGED <<clips, final_clip>>
            /\ Raise(r, <<>>)
    /\ UNCHANGED <<topic, response, script_segments, audio_path, audio_duration,
                   fetched, image_paths, exit_code, fs, call, result>>

\* write_videofile, first half: the audio track goes to temp-audio.m4a
WriteTempAudio(r) ==
    /\ pc[r] = "render"
    /\ Enter(r, "Renderer", 0)
    /\ \E ok \in BOOLEAN :
          IF ok
          THEN /\ fs' = WriteFile(fs, TEMP_AUDIO, r, 0)
               /\ Goto(r, "encode", <<>>)
          ELSE /\ fs' = fs
               /\ Raise(r, <<>>)
    /\ UNCHANGED <<topic, response, script_segments, audio_path, audio_duration,
                   fetched, image_paths, clips, final_clip, exit_code, call, result>>

\* write_videofile, second half: encode, then remove_temp=True
EncodeVideo(r) ==
    /\ pc[r] = "encode"
    /\ \E ok \in BOOLEAN :
          IF ok /\ Exists(TEMP_AUDIO)
          THEN /\ fs' = RemoveFiles(WriteFile(fs, OUTPUT_PATH, r, final_clip[r]),
                                    {TEMP_AUDIO})
               /\ Goto(r, "unlink", <<>>)
          ELSE /\ fs' = fs
               /\ Raise(r, <<>>)
    /\ UNCHANGED <<topic, response, script_segments, audio_path, audio_duration,
                   fetched, image_paths, clips, final_clip, started, exit_code,
                   call, result>>

\* "for img_path in image_paths: img_path.unlink()", then main's success prints
UnlinkFrames(r) ==
    /\ pc[r] = "unlink"
    /\ IF \A p \in ScenePaths(r) : Exists(p)
       THEN /\ fs' = RemoveFiles(fs, ScenePaths(r))
            /\ Goto(r, "finally", <<SUCCESS_MSG>>)
       ELSE LET miss == CHOOSE k \in 1..Len(image_paths[r]) :
                           /\ ~Exists(scene_path(image_paths[r][k]))
                           /\ \A j \in 1..(k - 1) : Exists(scene_path(image_paths[r][j]))
            IN  /\ fs' = RemoveFiles(fs, {scene_path(image_paths[r][j]) : j \in 1..(miss - 1)})
                /\ Raise(r, <<>>)
    /\ UNCHANGED <<topic, response, script_segments, audio_path, audio_duration,
                   fetched, image_paths, clips, final_clip, started, exit_code,
                   call, result>>

\* the status of a process whose main returned
EXIT_STATUS == 0

\* finally: unlink the audio file if audio_path is bound and the file exists;
\* main then returns
Finally(r) ==
    /\ pc[r] = "finally"
    /\ fs' = IF audio_path[r] /\ Exists(AUDIO_PATH)
             THEN RemoveFiles(fs, {AUDIO_PATH}) ELSE fs
    /\ exit_code' = [exit_code EXCEPT ![r] = EXIT_STATUS]
    /\ Goto(r, "done", <<>>)
    /\ UNCHANGED <<topic, response, script_segments, audio_path, audio_duration,
                   fetched, image_paths, clips, final_clip, started, call, result>>

\* ------------------------------------------------------------- one run
Step(r, TS, RS, DS) ==
    \/ ReadTopic(r, TS)
    \/ GenerateScript(r, RS)
    \/ SaveScript(r)
    \/ TextToSpeech(r, DS)
    \/ ComposeFrame(r)
    \/ BuildTimeline(r)
    \/ WriteTempAudio(r)
    \/ EncodeVideo(r)
    \/ UnlinkFrames(r)
    \/ Finally(r)

Next == Step(1, Topics, Responses, Durations)

Spec == Init /\ [][Next]_vars

\* ------------------------------------------------- two runs, one directory
\* The inputs of the two concurrent runs: scripts of one and of two lines.
ConcTopics    == {<<"a">>}
ConcResponses == {Returned(<<"a">>), Returned(<<"a", NL, "a">>)}
ConcDurations == {1000}

NextConc == \E r \in Runs : Step(r, ConcTopics, ConcResponses, ConcDurations)

SpecConc == Init /\ [][NextConc]_vars

\* ------------------------------------------------------------ unit harness
\* One function of the program applied once to arguments drawn at the start.
ScriptCalls ==
    {[fn |-> "generate_script", topic |-> t, response |-> resp] :
        t \in Topics, resp \in Responses}
WrapCalls ==
    {[fn |-> "wrap", words |-> w] : w \in SeqUpTo(WordWidths, MaxWords)}
TimelineCalls ==
    {[fn |-> "build_timeline", n |-> n, duration |-> d] :
        n \in 0..MaxFrames, d \in Durations}

InitUnit ==
    /\ PipelineInit
    /\ call \in ScriptCalls \cup WrapCalls \cup TimelineCalls
    /\ result = NoResult

Return(value) ==
    /\ ~result.done
    /\ result' = [done |-> TRUE, value |-> value]
    /\ UNCHANGED <<call, pipeline_vars>>

CallGenerateScript ==
    /\ call.fn = "generate_script"
    /\ Return(generate_script(call.topic, call.response))

CallWrapText ==
    /\ call.fn = "wrap"
    /\ Return(WrapText(call.words))

\* the k-th image is the file scene_<k>.png as the run itself wrote it
CallBuildTimeline ==
    /\ call.fn = "build_timeline"
    /\ Return(build_timeline([k \in 1..call.n |->
                                 [name |-> scene_path(k), by |-> 1, data |-> k]],
                             call.duration))

NextUnit == CallGenerateScript \/ CallWrapText \/ CallBuildTimeline

SpecUnit == InitUnit /\ [][NextUnit]_vars

\* ================================================================ claims
Failed(r) == out[r] /= <<>> /\ out[r][Len(out[r])] = ERROR_MSG

Entered(r, stage) == \E k \in 1..Len(started[r]) : started[r][k][1] = stage

LastStage(r) == started[r][Len(started[r])][1]

IsPrefix(s, t) == Len(s) <= Len(t) /\ \A k \in 1..Len(s) : s[k] = t[k]

Trimmed(line) ==
    line /= <<>> /\ ~IsSpace(line[1]) /\ ~IsSpace(line[Len(line)])

\* a text with no non-empty line: nothing but whitespace
BlankText(text) == \A i \in 1..Len(text) : IsSpace(text[i])

RECURSIVE Flatten(_)
Flatten(ls) == IF ls = <<>> THEN <<>> ELSE Head(ls) \o Flatten(Tail(ls))

Transient(name) ==
    name[1] \in {"scene_.png", "output_audio.mp3", "temp-audio.m4a"}

\* C1: whatever the text-generation call does (raises, or returns any text),
\* generate_script returns a non-empty list of non-empty trimmed lines, and it
\* returns the fallback script when the call raised or the text had no
\* non-empty line.
C1_ScriptNeverEmpty ==
    (call.fn = "generate_script" /\ result.done) =>
        LET v == result.value
        IN  /\ Len(v) >= 1
            /\ \A k \in 1..Len(v) : Trimmed(v[k])
            /\ (call.response.kind = "raise" \/ BlankText(call.response.text))
                  => v = FallbackScript(call.topic)

\* C2: once a run has ended, on every path, none of the transient files it
\* created (scene_<i>.png, the narration audio, the temporary muxing audio) is
\* left in the working directory.
C2_NoTransientLeftBehind ==
    \A r \in Runs :
        pc[r] = "done" =>
            \A n \in DOMAIN fs : ~(Transient(n) /\ fs[n].by = r)

\* C3: the timeline has one clip per frame, in frame order; a clip has a
\* crossfade-in exactly when it is not the first and a crossfade-out exactly
\* when it is not the last.
C3_TimelineShape ==
    \A r \in Runs :
        final_clip[r] /= <<>> =>
            /\ Len(clips[r]) = Len(image_paths[r])
            /\ Len(clips[r]) >= 1
            /\ \A k \in 1..Len(clips[r]) :
                  /\ clips[r][k].img.name = scene_path(image_paths[r][k])
                  /\ clips[r][k].img.data.text = script_segments[r][k]
                  /\ clips[r][k].crossfadein <=> (k > 1)
                  /\ clips[r][k].crossfadeout <=> (k < Len(clips[r]))

C3_Witness ==
    /\ final_clip[1] /= <<>>
    /\ Len(clips[1]) = 4
    /\ clips[1][2].crossfadein /\ clips[1][2].crossfadeout
    /\ ~clips[1][1].crossfadein /\ ~clips[1][4].crossfadeout

\* C4: for an audio duration D and n >= 1 frames every clip lasts D / n, and
\* the concatenated track, crossfades included, lasts D.
C4_TrackMatchesAudio ==
    (call.fn = "build_timeline" /\ result.done /\ call.n >= 1) =>
        LET tl == result.value
        IN  /\ tl.error = ""
            /\ Len(tl.clips) = call.n
            /\ \A k \in 1..Len(tl.clips) :
                  tl.clips[k].duration.num * call.n
                      = call.duration * tl.clips[k].duration.den
            /\ tl.duration.num = call.duration * tl.duration.den

\* D = 42.3 s over 6 frames: 7.05 s per clip, 42.3 s in all
C4_Witness ==
    /\ call.fn = "build_timeline" /\ result.done
    /\ call.n = 6 /\ call.duration = 42300
    /\ result.value.clips[3].duration = [num |-> 7050, den |-> 1]
    /\ result.value.clips[3].crossfadein /\ result.value.clips[3].crossfadeout
    /\ result.value.duration = [num |-> 42300, den |-> 1]

\* C5: when speech synthesis or encoding fails, no later stage runs, success is
\* not reported, the error is reported, and the process ends with a non-zero
\* status.
C5_FatalFailureSignalled ==
    \A r \in Runs :
        (Failed(r) /\ LastStage(r) \in {"Narrator", "Renderer"}) =>
            /\ pc[r] \in {"finally", "done"}
            /\ \A k \in 1..Len(out[r]) : out[r][k] /= SUCCESS_MSG
            /\ pc[r] = "done" => exit_code[r] /= 0

\* C6: whatever each line's image fetch does, the composer does not raise on
\* its account and yields one frame per line, the i-th from the i-th line, on
\* the solid colour when the fetch failed.
C6_OneFramePerLine ==
    \A r \in Runs :
        LET n    == Len(script_segments[r])
            made == Len(image_paths[r])
        IN  /\ made <= n
            /\ \A k \in 1..made : image_paths[r][k] = k
            /\ \A k \in 1..Len(fetched[r]) : fetched[r][k].saved => k <= made
            /\ pc[r] = "timeline" => made = n
            /\ pc[r] \in {"compose", "timeline"} =>
                  \A k \in 1..made :
                      /\ Exists(scene_path(k))
                      /\ fs[scene_path(k)].data.text = script_segments[r][k]
                      /\ fs[scene_path(k)].data.index = k
                      /\ fetched[r][k].fetch /= "ok"
                            => fs[scene_path(k)].data.bg = BACKGROUND_COLOR

C6_Witness ==
    /\ pc[1] = "timeline"
    /\ Len(image_paths[1]) = 4
    /\ fetched[1][1].fetch = "interrupt"
    /\ fetched[1][2].fetch = "error"
    /\ fetched[1][3].fetch = "ok"
    /\ fs[scene_path(1)].data.bg = BACKGROUND_COLOR
    /\ fs[scene_path(3)].data.bg = "photo"

\* C7: when two runs share the working directory, no step of one run
\* overwrites or deletes a transient file of the other, and no run builds its
\* video from the other's frames or audio.
C7_NoCollision ==
    [][\A r \in Runs :
          pc'[r] /= pc[r] =>
              /\ \A n \in DOMAIN fs :
                    (Transient(n) /\ fs[n].by /= r)
                        => (n \in DOMAIN fs' /\ fs'[n] = fs[n])
              /\ \A k \in 1..Len(clips'[r]) : clips'[r][k].img.by = r
              /\ \A k \in 1..Len(final_clip'[r]) : final_clip'[r][k].audio.by = r
      ]_vars

\* the order the stages are to be entered in, for a script
ExpectedOrder(segs) ==
    << <<"ScriptSource", 0>>, <<"Narrator", 0>> >>
    \o [k \in 1..Len(segs) |-> <<"SceneComposer", k>>]
    \o << <<"TimelineBuilder", 0>>, <<"Renderer", 0>> >>

\* what must be complete when a stage is entered
PredecessorComplete(r, stage) ==
    CASE stage[1] = "ScriptSource"    -> topic'[r] /= <<>>
      [] stage[1] = "Narrator"        -> SCRIPT_PATH \in DOMAIN fs
      [] stage[1] = "SceneComposer"   -> /\ audio_duration[r] > 0
                                         /\ Len(image_paths[r]) = stage[2] - 1
      [] stage[1] = "TimelineBuilder" -> Len(image_paths[r]) = Len(script_segments[r])
      [] stage[1] = "Renderer"        -> final_clip[r] /= <<>>

\* C8: a run enters its stages in the order ScriptSource, Narrator,
\* SceneComposer line by line, TimelineBuilder, Renderer; a stage is entered
\* only once its predecessor is complete, and none is entered after a failure.
C8_StagesInOrder ==
    [][\A r \in Runs :
          /\ IsPrefix(started'[r], ExpectedOrder(script_segments'[r]))
          /\ Failed(r) => started'[r] = started[r]
          /\ started'[r] /= started[r] =>
                /\ Len(started'[r]) = Len(started[r]) + 1
                /\ PredecessorComplete(r, started'[r][Len(started'[r])])
      ]_vars

C8_Witness ==
    /\ pc[1] = "done"
    /\ Len(started[1]) = 8
    /\ started[1][6] = <<"SceneComposer", 4>>
    /\ out[1][Len(out[1])] = SUCCESS_MSG

\* C9: building a timeline from no frames is an error that produces no video,
\* and no run gets there, because the script a run hands on after ScriptSource
\* has at least one line.
C9_ScriptHandedOnNonEmpty ==
    \A r \in Runs :
        /\ Entered(r, "ScriptSource") => Len(script_segments[r]) >= 1
        /\ (Entered(r, "TimelineBuilder") /\ Len(image_paths[r]) = 0)
              => (final_clip[r] = <<>> /\ Failed(r))

\* C10: the wrapped lines, read in order, are the words of the text in order,
\* and every line is non-empty and measures less than the limit.
C10_WrapLinesFit ==
    (call.fn = "wrap" /\ result.done) =>
        LET ls == result.value
        IN  /\ Flatten(ls) = call.words
            /\ \A k \in 1..Len(ls) :
                  ls[k] /= <<>> /\ textlength(ls[k]) < WrapLimit

====
